---------------------------- MODULE Spec2Model ----------------------------
(***************************************************************************)
(* A model of AQPython/Utilities.py: the property decoder                  *)
(* (GetAQProperties), the property encoder (GetCATProperties) and the text *)
(* hydrator (HydrateText) with its /tmp document cache.                    *)
(*                                                                         *)
(* Python strings are sequences of one-character strings, so that split,   *)
(* join, lower, quote_plus and unquote_plus work on characters.  A Python  *)
(* list used only through `in' and len() (props, lcProps, decodeProps,     *)
(* encodeProps) is a set.  A dict is a function from keys to values; a     *)
(* dict that is iterated (the encoder's input) is a sequence of            *)
(* <<key, value>> pairs with distinct keys, in insertion order.            *)
(***************************************************************************)
EXTENDS Integers, Sequences, FiniteSets, TLC

(***************************************************************************)
(* Bounds of the model.                                                    *)
(***************************************************************************)
\* length of the readable document's text
DocLen == 4
\* most exclusion entries in one 'excludes' property
MaxExcl == 2
\* most '&'-separated tokens in one decoded `other' string
MaxToks == 2
\* most entries of an encoded property mapping
MaxProps == 2
\* most HydrateText calls per document in the cache specification
MaxCalls == 3

(***************************************************************************)
(* Module constants, Utilities.py lines 12-18.                             *)
(***************************************************************************)
_ORIG == <<"o", "r", "i", "g">>
_ORIG_ANNOT_ID == <<"o", "r", "i", "g", "A", "n", "n", "o", "t", "I", "D">>
_PARENT_ID == <<"p", "a", "r", "e", "n", "t", "I", "d">>
_ATTR == <<"a", "t", "t", "r">>
_OM_NON_ATTRIBUTE_PROPERTIES == {_ORIG, _ORIG_ANNOT_ID, _PARENT_ID}
_OM_ANNOT_SET == <<"o", "m">>
_WILDCARD == <<"*">>

(***************************************************************************)
(* Python str operations.                                                  *)
(***************************************************************************)
Min(a, b) == IF a <= b THEN a ELSE b

Max(a, b) == IF a >= b THEN a ELSE b

\* s[i:j] for 0 <= i, 0 <= j: both ends are clipped to len(s)
Slice(s, i, j) == SubSeq(s, i + 1, Min(j, Len(s)))

\* str.lower() on one character
LowerChar(c) ==
  CASE c = "A" -> "a"
    [] c = "B" -> "b"
    [] c = "D" -> "d"
    [] c = "I" -> "i"
    [] c = "M" -> "m"
    [] c = "O" -> "o"
    [] OTHER -> c

\* str.lower()
lower(s) == [i \in 1..Len(s) |-> LowerChar(s[i])]

\* index of the first sep in s, 0 when there is none
RECURSIVE IndexOf(_, _, _)
IndexOf(s, sep, from) ==
  IF from > Len(s) THEN 0
  ELSE IF s[from] = sep THEN from
  ELSE IndexOf(s, sep, from + 1)

\* str.split(sep) for a one-character sep: ''.split(sep) is ['']
RECURSIVE split(_, _)
split(s, sep) ==
  LET i == IndexOf(s, sep, 1) IN
  IF i = 0 THEN <<s>>
  ELSE <<SubSeq(s, 1, i - 1)>> \o split(SubSeq(s, i + 1, Len(s)), sep)

\* sep.join(parts) for a one-character sep
RECURSIVE join(_, _)
join(parts, sep) ==
  IF Len(parts) = 0 THEN <<>>
  ELSE IF Len(parts) = 1 THEN parts[1]
  ELSE parts[1] \o <<sep>> \o join(Tail(parts), sep)

(***************************************************************************)
(* urllib.parse.quote_plus and unquote_plus on the characters of the       *)
(* model: letters, digits and '_.-~' are safe, a space is written '+', and *)
(* every other character is written '%XX' with its code in upper-case hex. *)
(***************************************************************************)
SafeChars ==
  {"a", "b", "c", "d", "e", "f", "k", "x", "y", "A", "B", "D", "I", "M", "O",
   "2", "3", "5", "6", "_", ".", "-", "~"}

\* the characters quote_plus escapes, with the two hex digits of their code
HexOf ==
  [c \in {"%", "&", "*", "+", "="} |->
    CASE c = "%" -> <<"2", "5">>
      [] c = "&" -> <<"2", "6">>
      [] c = "*" -> <<"2", "A">>
      [] c = "+" -> <<"2", "B">>
      [] c = "=" -> <<"3", "D">>]

\* the character a pair of hex digits stands for ('%62' is 'b')
HexPairs == {<<HexOf[c], c>> : c \in DOMAIN HexOf} \cup {<<<<"6", "2">>, "b">>}

IsHexPair(h) == \E p \in HexPairs : p[1] = h

CharOfHex(h) == (CHOOSE p \in HexPairs : p[1] = h)[2]

quote_char(c) ==
  IF c \in SafeChars THEN <<c>>
  ELSE IF c = " " THEN <<"+">>
  ELSE <<"%">> \o HexOf[c]

RECURSIVE quote_plus(_)
quote_plus(s) ==
  IF Len(s) = 0 THEN <<>> ELSE quote_char(Head(s)) \o quote_plus(Tail(s))

\* urllib.parse.unquote: a '%' not followed by two hex digits stays as it is
RECURSIVE unquote(_)
unquote(s) ==
  IF Len(s) = 0 THEN <<>>
  ELSE IF s[1] = "%" /\ Len(s) >= 3 /\ IsHexPair(SubSeq(s, 2, 3))
    THEN <<CharOfHex(SubSeq(s, 2, 3))>> \o unquote(SubSeq(s, 4, Len(s)))
  ELSE <<s[1]>> \o unquote(Tail(s))

\* unquote_plus: every '+' becomes a space, then unquote
unquote_plus(s) ==
  unquote([i \in 1..Len(s) |-> IF s[i] = "+" THEN " " ELSE s[i]])

(***************************************************************************)
(* Dicts.                                                                  *)
(***************************************************************************)
EmptyDict == <<>>

\* d[k] = v
DictPut(d, k, v) ==
  [x \in DOMAIN d \cup {k} |-> IF x = k THEN v ELSE d[x]]

(***************************************************************************)
(* GetAQProperties, Utilities.py lines 39-63.                              *)
(***************************************************************************)
\* any(p in coll for p in [key, _WILDCARD])
AnyIn(key, coll) == key \in coll \/ _WILDCARD \in coll

\* the mutant of DecodeToken that stores a wildcard 'om' token under its own
\* key instead of putting the raw token in the attribute buffer
DecodeTokenNoBag(st, otherTok, set, props, lcProps, decodeProps) ==
  LET toks == split(otherTok, "=") IN
  IF Len(toks) # 2 THEN st
  ELSE
    LET key == toks[1]
        decoded == IF AnyIn(key, decodeProps) THEN unquote_plus(toks[2]) ELSE toks[2]
        value == IF AnyIn(key, lcProps) THEN lower(decoded) ELSE decoded
    IN
    IF AnyIn(key, props)
      THEN [st EXCEPT !.propsMap = DictPut(@, key, value)]
    ELSE IF _ATTR \in props /\ lower(set) = _OM_ANNOT_SET
            /\ key \notin _OM_NON_ATTRIBUTE_PROPERTIES
      THEN [st EXCEPT !.attrBuf = Append(@, otherTok)]
    ELSE st

\* the mutant of DecodeToken that collects unwanted tokens for every
\* annotation set, not only for 'om'
DecodeTokenAnySet(st, otherTok, set, props, lcProps, decodeProps) ==
  LET toks == split(otherTok, "=") IN
  IF Len(toks) # 2 THEN st
  ELSE
    LET key == toks[1]
        decoded == IF AnyIn(key, decodeProps) THEN unquote_plus(toks[2]) ELSE toks[2]
        value == IF AnyIn(key, lcProps) THEN lower(decoded) ELSE decoded
    IN
    IF AnyIn(key, props)
      THEN IF _WILDCARD \in props /\ lower(set) = _OM_ANNOT_SET
              /\ key \notin _OM_NON_ATTRIBUTE_PROPERTIES
             THEN [st EXCEPT !.attrBuf = Append(@, otherTok)]
             ELSE [st EXCEPT !.propsMap = DictPut(@, key, value)]
    ELSE IF _ATTR \in props /\ key \notin _OM_NON_ATTRIBUTE_PROPERTIES
      THEN [st EXCEPT !.attrBuf = Append(@, otherTok)]
    ELSE st

\* one pass of the loop `for otherTok in otherToks', lines 44-60, on the
\* loop's state st = [propsMap, attrBuf]
DecodeToken(st, otherTok, set, props, lcProps, decodeProps) ==
  LET toks == split(otherTok, "=") IN
  IF Len(toks) # 2 THEN st
  ELSE
    LET key == toks[1]
        decoded == IF AnyIn(key, decodeProps) THEN unquote_plus(toks[2]) ELSE toks[2]
        value == IF AnyIn(key, lcProps) THEN lower(decoded) ELSE decoded
    IN
    IF AnyIn(key, props)
      THEN IF _WILDCARD \in props /\ lower(set) = _OM_ANNOT_SET
              /\ key \notin _OM_NON_ATTRIBUTE_PROPERTIES
             THEN [st EXCEPT !.attrBuf = Append(@, otherTok)]
             ELSE [st EXCEPT !.propsMap = DictPut(@, key, value)]
    ELSE IF _ATTR \in props /\ lower(set) = _OM_ANNOT_SET
            /\ key \notin _OM_NON_ATTRIBUTE_PROPERTIES
      THEN [st EXCEPT !.attrBuf = Append(@, otherTok)]
    ELSE st

\* the loop over otherToks, lines 44-60
RECURSIVE DecodeLoop(_, _, _, _, _, _)
DecodeLoop(st, otherToks, set, props, lcProps, decodeProps) ==
  IF Len(otherToks) = 0 THEN st
  ELSE DecodeLoop(DecodeToken(st, Head(otherToks), set, props, lcProps, decodeProps),
                  Tail(otherToks), set, props, lcProps, decodeProps)

GetAQProperties(set, other, props, lcProps, decodeProps) ==
  LET st0 == [propsMap |-> EmptyDict, attrBuf |-> <<>>] IN
  IF Cardinality(props) > 0
    THEN LET st == DecodeLoop(st0, split(other, "&"), set, props, lcProps, decodeProps) IN
         IF Len(st.attrBuf) > 0 /\ _ATTR \notin DOMAIN st.propsMap
           THEN DictPut(st.propsMap, _ATTR, join(st.attrBuf, "&"))
           ELSE st.propsMap
    ELSE st0.propsMap

(***************************************************************************)
(* GetCATProperties, Utilities.py lines 93-104.  properties is NoneValue or *)
(* a dict in insertion order: [items |-> its <<key, value>> pairs].        *)
(***************************************************************************)
NoneValue == [none |-> TRUE]

\* the mutant of EncodeProp that percent-encodes no value
EncodePropRaw(prop, value, encodeProps) == prop \o <<"=">> \o value

\* lines 98-101: one 'key=value' pair
EncodeProp(prop, value, encodeProps) ==
  IF _WILDCARD \in encodeProps \/ prop \in encodeProps
    THEN prop \o <<"=">> \o quote_plus(value)
    ELSE prop \o <<"=">> \o value

\* the loop `for prop in properties', lines 96-101
RECURSIVE EncodeLoop(_, _, _)
EncodeLoop(properties, props, encodeProps) ==
  IF Len(properties) = 0 THEN <<>>
  ELSE
    LET prop == Head(properties)[1]
        rest == EncodeLoop(Tail(properties), props, encodeProps)
    IN
    IF _WILDCARD \in props \/ prop \in props
      THEN <<EncodeProp(prop, Head(properties)[2], encodeProps)>> \o rest
      ELSE rest

GetCATProperties(properties, props, encodeProps) ==
  IF properties # NoneValue
    THEN join(EncodeLoop(properties.items, props, encodeProps), "&")
    ELSE NoneValue

(***************************************************************************)
(* The file system HydrateText works on.  A document id names a source     *)
(* file txtPath + docId, which never changes during the job, and a cache   *)
(* file '/tmp/' + docId.  A file is Absent or <<its text>>.                *)
(***************************************************************************)
Absent == <<>>

Letters == <<"a", "b", "c", "d", "e", "f", "k", "x", "y">>

\* the text of the readable document: DocLen distinct characters
DocText == [i \in 1..DocLen |-> Letters[i]]

\* "d1" is readable, "d2" cannot be read, "d3" is readable and empty
DocIds == {"d1", "d2", "d3"}

TxtPath == "/data/"

\* the file io.open(txtPath + docId) reads, line 142
SourceFile(txtPath, docId) ==
  CASE docId = "d1" -> <<DocText>>
    [] docId = "d3" -> <<<<>>>>
    [] OTHER -> Absent

(***************************************************************************)
(* HydrateText step 1, Utilities.py lines 133-148.  tmpFiles is the state  *)
(* of /tmp; tmpWritable tells whether io.open('/tmp/' + docId, 'w')        *)
(* succeeds (it fails for a docId that names a missing directory, or on a  *)
(* full or read-only /tmp).  The result holds docText, the new state of    *)
(* /tmp, and what the call did: whether it opened the source, whether it   *)
(* wrote the cache file, and where docText came from.                      *)
(***************************************************************************)
\* the mutant of ReadDocText that never looks at the cache file
ReadDocTextNoCache(docId, txtPath, tmpFiles, tmpWritable) ==
  LET source == SourceFile(txtPath, docId) IN
  IF source = Absent
    THEN [docText |-> <<>>, tmpFiles |-> tmpFiles, srcRead |-> TRUE,
          cacheWrite |-> FALSE, from |-> "failed"]
  ELSE IF ~tmpWritable
    THEN [docText |-> <<>>, tmpFiles |-> tmpFiles, srcRead |-> TRUE,
          cacheWrite |-> FALSE, from |-> "failed"]
  ELSE [docText |-> source[1], tmpFiles |-> [tmpFiles EXCEPT ![docId] = source],
        srcRead |-> TRUE, cacheWrite |-> TRUE, from |-> "source"]

ReadDocText(docId, txtPath, tmpFiles, tmpWritable) ==
  IF tmpFiles[docId] # Absent
    \* lines 137-139: the cache file exists
    THEN [docText |-> tmpFiles[docId][1], tmpFiles |-> tmpFiles, srcRead |-> FALSE,
          cacheWrite |-> FALSE, from |-> "cache"]
  ELSE
    LET source == SourceFile(txtPath, docId) IN
    IF source = Absent
      \* line 142 raises; lines 146-148
      THEN [docText |-> <<>>, tmpFiles |-> tmpFiles, srcRead |-> TRUE,
            cacheWrite |-> FALSE, from |-> "failed"]
    ELSE IF ~tmpWritable
      \* line 144 raises after the source was read; lines 146-148
      THEN [docText |-> <<>>, tmpFiles |-> tmpFiles, srcRead |-> TRUE,
            cacheWrite |-> FALSE, from |-> "failed"]
    \* lines 142-145
    ELSE [docText |-> source[1], tmpFiles |-> [tmpFiles EXCEPT ![docId] = source],
          srcRead |-> TRUE, cacheWrite |-> TRUE, from |-> "source"]

(***************************************************************************)
(* HydrateText steps 2-5, Utilities.py lines 150-183.  properties is       *)
(* NoneValue or a dict with keys among "text", "orig" and "excludes".  The *)
(* value of 'excludes' is the '|'-separated list of ','-separated entries  *)
(* as the sequence of its entries, each the sequence of its five fields;   *)
(* the empty string is the empty sequence.  A field is a string of one     *)
(* digit or letter.                                                        *)
(***************************************************************************)
Digits == <<"0", "1", "2", "3", "4", "5", "6", "7", "8", "9">>

\* int(tok) for a one-digit tok
int(tok) == (CHOOSE n \in 1..Len(Digits) : Digits[n] = tok) - 1

\* lines 157-160: the parsed entries, without duplicates
ParseExcludes(value) ==
  {<<int(value[i][1]), value[i][2], value[i][3], int(value[i][4]), int(value[i][5])>> :
     i \in 1..Len(value)}

\* lines 161-163: the (excludeStart, excludeEnd) pairs, without duplicates
ProjectExToks(excludes) == {<<exclude[4], exclude[5]>> : exclude \in excludes}

\* line 164: the order of the key (tup[0], tup[1])
SortKeyLeq(p, q) == p[1] < q[1] \/ (p[1] = q[1] /\ p[2] <= q[2])

\* line 164: exToks.sort(...)
RECURSIVE SortExToks(_)
SortExToks(exToks) ==
  IF exToks = {} THEN <<>>
  ELSE LET first == CHOOSE p \in exToks : \A q \in exToks : SortKeyLeq(p, q) IN
       <<first>> \o SortExToks(exToks \ {first})

\* the mutant of SweepStep that forgets line 171: the cursor stays where it
\* was after the text before an exclusion is kept
SweepStepNoAdvance(st, exTok, docText) ==
  IF exTok[1] <= st.curOffset
    THEN [text |-> st.text, curOffset |-> exTok[2]]
    ELSE [text |-> st.text \o Slice(docText, st.curOffset, exTok[1]),
          curOffset |-> st.curOffset]

\* lines 167-171: one pass of the loop `for exTok in exToks' on the loop's
\* state st = [text, curOffset]
SweepStep(st, exTok, docText) ==
  IF exTok[1] <= st.curOffset
    THEN [text |-> st.text, curOffset |-> exTok[2]]
    ELSE [text |-> st.text \o Slice(docText, st.curOffset, exTok[1]),
          curOffset |-> exTok[2]]

\* lines 165-171: the loop's states, from the one before the first pass to the
\* one after the last pass
RECURSIVE SweepStates(_, _, _)
SweepStates(st, exToks, docText) ==
  IF Len(exToks) = 0 THEN <<st>>
  ELSE <<st>> \o SweepStates(SweepStep(st, Head(exToks), docText), Tail(exToks), docText)

\* lines 155-173: the text left by the exclusions, with the loop's states
ExcludedText(docText, startOffset, endOffset, value) ==
  LET exToks == SortExToks(ProjectExToks(ParseExcludes(value)))
      states == SweepStates([text |-> <<>>, curOffset |-> startOffset], exToks, docText)
      last == states[Len(states)]
  IN [text |-> IF last.curOffset < endOffset
                 THEN last.text \o Slice(docText, last.curOffset, endOffset)
                 ELSE last.text,
      exToks |-> exToks,
      states |-> states]

HasKey(properties, key) == properties # NoneValue /\ key \in DOMAIN properties

\* the mutant of ShortCircuit that forgets the test of an empty docText
ShortCircuitTextOnly(docText, properties) == HasKey(properties, "text")

\* line 151
ShortCircuit(docText, properties) == docText = <<>> \/ HasKey(properties, "text")

\* the mutant of UseExcludes that ignores the excludes argument
UseExcludesAlways(properties, excludes) ==
  HasKey(properties, "excludes") /\ Len(properties["excludes"]) > 0

\* line 154
UseExcludes(properties, excludes) ==
  excludes /\ HasKey(properties, "excludes") /\ Len(properties["excludes"]) > 0

\* lines 178-182
SetText(properties, text) ==
  IF properties # NoneValue
    THEN [k \in DOMAIN properties \cup {"text"} |->
            IF k = "text" THEN text ELSE properties[k]]
    ELSE [k \in {"text"} |-> text]

NoSweep == [text |-> <<>>, exToks |-> <<>>, states |-> <<>>]

\* lines 130-183; the result holds the returned properties, the new state of
\* /tmp and what the call did
HydrateText(docId, startOffset, endOffset, properties, txtPath, excludes, tmpFiles, tmpWritable) ==
  LET read == ReadDocText(docId, txtPath, tmpFiles, tmpWritable)
      docText == read.docText
  IN
  IF ShortCircuit(docText, properties)
    THEN [properties |-> properties, read |-> read, branch |-> "unchanged",
          sweep |-> NoSweep]
  ELSE IF UseExcludes(properties, excludes)
    THEN LET sweep == ExcludedText(docText, startOffset, endOffset,
                                   properties["excludes"]) IN
         [properties |-> SetText(properties, sweep.text), read |-> read,
          branch |-> "excludes", sweep |-> sweep]
  ELSE [properties |-> SetText(properties, Slice(docText, startOffset, endOffset)),
        read |-> read, branch |-> "plain", sweep |-> NoSweep]

(***************************************************************************)
(* The inputs the operations are called with.                              *)
(***************************************************************************)
Offsets == 0..DocLen

\* every sequence over S of length at most n
SeqsUpTo(S, n) == UNION {[1..k -> S] : k \in 0..n}

\* one entry 'kind,a,b,excludeStart,excludeEnd' of an 'excludes' value, with
\* excludeStart <= excludeEnd
ExcludeEntries ==
  {<<"1", "a", "b", Digits[p[1] + 1], Digits[p[2] + 1]>> :
     p \in {q \in Offsets \X Offsets : q[1] <= q[2]}}

ExcludesValues == SeqsUpTo(ExcludeEntries, MaxExcl)

\* the properties and the excludes argument of the rows HydrateRow hydrates
RowArguments ==
  ({NoneValue, EmptyDict, [text |-> <<"x">>], [orig |-> <<"x">>],
    [text |-> <<"x">>, excludes |-> <<<<"1", "a", "b", "0", "1">>>>]}
     \cup {[excludes |-> v] : v \in SeqsUpTo(ExcludeEntries, 1)}
     \cup {[excludes |-> v, orig |-> <<"x">>] : v \in SeqsUpTo(ExcludeEntries, 1)})
    \X BOOLEAN
    \cup ({[excludes |-> v] : v \in ExcludesValues} \X {TRUE})

\* the properties of the rows HydrateCounted hydrates
CountedProperties ==
  {NoneValue, [orig |-> <<"x">>], [text |-> <<"x">>],
   [excludes |-> <<<<"1", "a", "b", "0", "1">>>>]}

AnnotSets == {<<"o", "m">>, <<"O", "M">>, <<"x">>}

KeyA == <<"a">>

\* the '&'-separated tokens of the `other' strings that are decoded: well
\* formed ones, and ones without or with two '='
Tokens ==
  { <<"a", "=", "A">>,
    <<"b", "=", "%", "2", "6">>,
    _ATTR \o <<"=", "x">>,
    _ORIG \o <<"=", "A", "+", "%", "6", "2">>,
    _PARENT_ID \o <<"=", "x">>,
    <<"=", "x">>,
    <<"a">>,
    <<"a", "=", "b", "=", "c">>,
    <<>> }

Others == {join(toks, "&") : toks \in SeqsUpTo(Tokens, MaxToks)}

PropsChoices == SUBSET {_WILDCARD, _ATTR, KeyA, _ORIG}

FlagChoices == {{}, {_WILDCARD}, {_ORIG}}

\* the keys and values of the mappings that are encoded
MapKeys == {KeyA, _ORIG, <<"k", "&">>}

MapValues ==
  {<<"x">>, <<"A", " ", "b">>, <<"a", "&", "b">>, <<"a", "=", "b">>, <<"%", "2", "B">>}

\* the dicts of at most MaxProps entries, as sequences with distinct keys
Mappings ==
  {[items |-> m] : m \in
     {m \in SeqsUpTo(MapKeys \X MapValues, MaxProps) :
        \A i, j \in 1..Len(m) : i # j => m[i][1] # m[j][1]}}

EncodeChoices == {{}, {_WILDCARD}, {KeyA}}

(***************************************************************************)
(* The state: the files of /tmp, the row that waits for its call (NoRow    *)
(* when there is none), the last call with its arguments and what it       *)
(* returned, and for each document the number of HydrateText calls, of     *)
(* reads of its source file and of writes of its cache file.               *)
(***************************************************************************)
VARIABLES tmp, row, call, calls, srcReads, cacheWrites

vars == <<tmp, row, call, calls, srcReads, cacheWrites>>

NoRow == [op |-> "none"]

\* /tmp holds, of each readable document, nothing or the copy an earlier job
\* left there
InitFiles ==
  /\ tmp \in [DocIds -> {Absent, <<DocText>>, <<<<>>>>}]
  /\ \A d \in DocIds : tmp[d] \in {Absent, SourceFile(TxtPath, d)}
  /\ call = [op |-> "none"]
  /\ calls = [d \in DocIds |-> 0]
  /\ srcReads = [d \in DocIds |-> 0]
  /\ cacheWrites = [d \in DocIds |-> 0]

\* a row of the readable document waits for HydrateText
InitText ==
  /\ InitFiles
  /\ \A d \in DocIds \ {"d1"} : tmp[d] = Absent
  /\ \E startOffset \in Offsets, endOffset \in Offsets, args \in RowArguments :
       /\ startOffset <= endOffset
       /\ row = [op |-> "HydrateText", docId |-> "d1", startOffset |-> startOffset,
                 endOffset |-> endOffset, properties |-> args[1],
                 excludes |-> args[2]]

\* a row waits for GetAQProperties, for GetCATProperties, or for both
InitCodec ==
  /\ InitFiles
  /\ \A d \in DocIds : tmp[d] = Absent
  /\ \/ \E set \in AnnotSets, other \in Others, props \in PropsChoices,
           lcProps \in FlagChoices, decodeProps \in FlagChoices :
          row = [op |-> "GetAQProperties", set |-> set, other |-> other,
                 props |-> props, lcProps |-> lcProps, decodeProps |-> decodeProps]
     \/ \E properties \in {NoneValue} \cup Mappings,
           props \in {{}, {_WILDCARD}, {KeyA}}, encodeProps \in EncodeChoices :
          row = [op |-> "GetCATProperties", properties |-> properties,
                 props |-> props, encodeProps |-> encodeProps]
     \/ \E set \in AnnotSets, properties \in Mappings, props \in PropsChoices,
           encodeProps \in EncodeChoices :
          row = [op |-> "RoundTrip", set |-> set, properties |-> properties,
                 props |-> props, encodeProps |-> encodeProps]

\* no row waits: HydrateCounted takes its rows as they come
InitCache == InitFiles /\ row = NoRow

Init == InitText \/ InitCodec \/ InitCache

\* the record of one HydrateText call
HydrateCall(docId, startOffset, endOffset, properties, excludes, tmpWritable) ==
  LET r == HydrateText(docId, startOffset, endOffset, properties, TxtPath, excludes,
                       tmp, tmpWritable)
  IN [op |-> "HydrateText", docId |-> docId, startOffset |-> startOffset,
      endOffset |-> endOffset, properties |-> properties, excludes |-> excludes,
      cached |-> tmp[docId] # Absent, docText |-> r.read.docText,
      from |-> r.read.from, srcRead |-> r.read.srcRead,
      cacheWrite |-> r.read.cacheWrite, tmpFiles |-> r.read.tmpFiles,
      branch |-> r.branch, sweep |-> r.sweep, result |-> r.properties]

\* HydrateText on the waiting row, with a writable /tmp
HydrateRow ==
  /\ row.op = "HydrateText"
  /\ call' = HydrateCall(row.docId, row.startOffset, row.endOffset, row.properties,
                         row.excludes, TRUE)
  /\ tmp' = call'.tmpFiles
  /\ row' = NoRow
  /\ UNCHANGED <<calls, srcReads, cacheWrites>>

\* HydrateText on a row of any document, counted
HydrateCounted ==
  \E docId \in DocIds, properties \in CountedProperties, tmpWritable \in BOOLEAN :
    /\ row = NoRow
    /\ calls[docId] < MaxCalls
    /\ call' = HydrateCall(docId, 0, 1, properties, TRUE, tmpWritable)
    /\ tmp' = call'.tmpFiles
    /\ calls' = [calls EXCEPT ![docId] = @ + 1]
    /\ srcReads' = [srcReads EXCEPT ![docId] = @ + (IF call'.srcRead THEN 1 ELSE 0)]
    /\ cacheWrites' =
         [cacheWrites EXCEPT ![docId] = @ + (IF call'.cacheWrite THEN 1 ELSE 0)]
    /\ UNCHANGED row

\* GetAQProperties on the waiting row
Decode ==
  /\ row.op = "GetAQProperties"
  /\ call' = [op |-> "GetAQProperties", set |-> row.set, other |-> row.other,
              props |-> row.props, lcProps |-> row.lcProps,
              decodeProps |-> row.decodeProps,
              result |-> GetAQProperties(row.set, row.other, row.props, row.lcProps,
                                         row.decodeProps)]
  /\ row' = NoRow
  /\ UNCHANGED <<tmp, calls, srcReads, cacheWrites>>

\* GetCATProperties on the waiting row
Encode ==
  /\ row.op = "GetCATProperties"
  /\ call' = [op |-> "GetCATProperties", properties |-> row.properties,
              props |-> row.props, encodeProps |-> row.encodeProps,
              result |-> GetCATProperties(row.properties, row.props, row.encodeProps)]
  /\ row' = NoRow
  /\ UNCHANGED <<tmp, calls, srcReads, cacheWrites>>

\* GetCATProperties on the waiting row, then GetAQProperties on the row it
\* made, with the same props, the encoded keys decoded and nothing lower-cased
RoundTrip ==
  /\ row.op = "RoundTrip"
  /\ LET other == GetCATProperties(row.properties, row.props, row.encodeProps) IN
     call' = [op |-> "RoundTrip", set |-> row.set, properties |-> row.properties,
              props |-> row.props, encodeProps |-> row.encodeProps, other |-> other,
              result |-> GetAQProperties(row.set, other, row.props, {},
                                         row.encodeProps)]
  /\ row' = NoRow
  /\ UNCHANGED <<tmp, calls, srcReads, cacheWrites>>

NextText == HydrateRow

NextCache == HydrateCounted

NextCodec == Decode \/ Encode \/ RoundTrip

Next == NextText \/ NextCache \/ NextCodec

\* the hydrator on the rows of one readable document
SpecText == InitText /\ [][NextText]_vars

\* the hydrator and its cache on the rows of several documents
SpecCache == InitCache /\ [][NextCache]_vars

\* the decoder and the encoder
SpecCodec == InitCodec /\ [][NextCodec]_vars

Spec == Init /\ [][Next]_vars

(***************************************************************************)
(* What the claims speak of.                                               *)
(***************************************************************************)
IsHydrate == call.op = "HydrateText"

\* the call took the exclusion-aware branch, lines 155-173
Swept == IsHydrate /\ call.branch = "excludes"

\* the (excludeStart, excludeEnd) pairs of an 'excludes' value, as listed
PairsOf(value) == [i \in 1..Len(value) |-> <<int(value[i][4]), int(value[i][5])>>]

CallPairs == PairsOf(call.properties["excludes"])

\* position pos of the text lies in one of the exclusions
Excluded(pairs, pos) ==
  \E i \in 1..Len(pairs) : pairs[i][1] <= pos /\ pos < pairs[i][2]

\* the characters of docText[from:to] whose positions lie in no exclusion
RECURSIVE VisibleText(_, _, _, _)
VisibleText(docText, from, to, pairs) ==
  IF from >= to THEN <<>>
  ELSE (IF Excluded(pairs, from) THEN <<>> ELSE <<docText[from + 1]>>)
         \o VisibleText(docText, from + 1, to, pairs)

\* the listed pairs are in ascending order and no position lies in two of them
DisjointSorted(pairs) ==
  \A i, j \in 1..Len(pairs) :
    i < j => /\ SortKeyLeq(pairs[i], pairs[j])
             /\ ~\E pos \in Offsets : Excluded(<<pairs[i]>>, pos) /\ Excluded(<<pairs[j]>>, pos)

\* every listed pair lies in the span of the call
WithinSpan(pairs) ==
  \A i \in 1..Len(pairs) :
    call.startOffset <= pairs[i][1] /\ pairs[i][1] <= pairs[i][2]
      /\ pairs[i][2] <= call.endOffset

\* the position in docText of a character of the hydrated text (the characters
\* of DocText are distinct)
PositionOf(docText, c) == (CHOOSE i \in 1..Len(docText) : docText[i] = c) - 1

\* C1: with exclusions applied, when the listed exclusion pairs are pairwise
\* disjoint and sorted ascending, the hydrated text is exactly the characters
\* of docText[startOffset:endOffset] that lie in no exclusion, in order.
C1_TextIsTheGapsBetweenExclusions ==
  (Swept /\ DisjointSorted(CallPairs))
    => call.result["text"]
         = VisibleText(call.docText, call.startOffset, call.endOffset, CallPairs)

\* C2: with exclusions applied, when the exclusions together cover every
\* position of [startOffset, endOffset), the hydrated text is empty.
C2_CoveredSpanGivesEmptyText ==
  (Swept /\ \A pos \in call.startOffset..(call.endOffset - 1) : Excluded(CallPairs, pos))
    => call.result["text"] = <<>>

\* C9: in the sweep over the sorted exclusion pairs the cursor curOffset never
\* decreases, and an exclusion that starts at or before the cursor moves it to
\* max(curOffset, excludeEnd).
C9_CursorNeverDecreases ==
  Swept =>
    \A i \in 1..Len(call.sweep.exToks) :
      LET before == call.sweep.states[i].curOffset
          after == call.sweep.states[i + 1].curOffset
          exTok == call.sweep.exToks[i]
      IN /\ after >= before
         /\ exTok[1] <= before => after = Max(before, exTok[2])

\* C10: when every exclusion pair satisfies startOffset <= excludeStart <=
\* excludeEnd <= endOffset, the hydrated text is made of characters at strictly
\* increasing positions of [startOffset, endOffset), so it is no longer than
\* endOffset - startOffset.
C10_TextIsSubsequenceOfSpan ==
  (Swept /\ WithinSpan(CallPairs)) =>
    LET text == call.result["text"]
        pos(i) == PositionOf(call.docText, text[i])
    IN /\ \A i \in 1..Len(text) : call.startOffset <= pos(i) /\ pos(i) < call.endOffset
       /\ \A i \in 1..(Len(text) - 1) : pos(i) < pos(i + 1)
       /\ Len(text) <= call.endOffset - call.startOffset

\* a sweep within the span whose cursor went back over a nested exclusion and
\* that kept text before and after it
C10_Witness ==
  /\ Swept
  /\ WithinSpan(CallPairs)
  /\ \E i \in 1..Len(call.sweep.exToks) :
       call.sweep.states[i + 1].curOffset < call.sweep.states[i].curOffset
  /\ Len(call.result["text"]) >= 2

\* C8: for a non-empty document text and properties without 'text', when the
\* excludes argument is false or the properties are None, lack 'excludes' or
\* hold an empty 'excludes', the result's 'text' is docText[startOffset:
\* endOffset] and every other key keeps its value.
C8_PlainExtraction ==
  (/\ IsHydrate
   /\ call.docText # <<>>
   /\ ~HasKey(call.properties, "text")
   /\ \/ ~call.excludes
      \/ ~HasKey(call.properties, "excludes")
      \/ Len(call.properties["excludes"]) = 0)
    => /\ HasKey(call.result, "text")
       /\ Len(call.result["text"]) = call.endOffset - call.startOffset
       /\ \A i \in 1..(call.endOffset - call.startOffset) :
            call.result["text"][i] = call.docText[call.startOffset + i]
       /\ \A k \in DOMAIN call.result \ {"text"} :
            HasKey(call.properties, k) /\ call.result[k] = call.properties[k]
       /\ call.properties # NoneValue => DOMAIN call.properties \subseteq DOMAIN call.result

\* exclusions are listed but not asked for: the text is the whole span
C8_Witness ==
  /\ IsHydrate
  /\ ~call.excludes
  /\ HasKey(call.properties, "excludes")
  /\ Len(call.properties["excludes"]) > 0
  /\ HasKey(call.properties, "orig")
  /\ call.cached
  /\ call.result["text"] = SubSeq(call.docText, 2, 3)

IsDecode == call.op = "GetAQProperties"

HasSeparator(s) == \E i \in 1..Len(s) : s[i] \in {"&", "="}

\* a token with exactly one '='
WellFormed(tok) == Cardinality({i \in 1..Len(tok) : tok[i] = "="}) = 1

TokKey(tok) == SubSeq(tok, 1, IndexOf(tok, "=", 1) - 1)

TokValue(tok) == SubSeq(tok, IndexOf(tok, "=", 1) + 1, Len(tok))

\* the well-formed tokens of an `other' string, in their order
WellFormedTokens(other) == SelectSeq(split(other, "&"), WellFormed)

\* the value a kept token is stored with: decoded, then lower-cased
StoredValue(tok, lcProps, decodeProps) ==
  LET decoded == IF TokKey(tok) \in decodeProps \/ _WILDCARD \in decodeProps
                   THEN unquote_plus(TokValue(tok)) ELSE TokValue(tok)
  IN IF TokKey(tok) \in lcProps \/ _WILDCARD \in lcProps THEN lower(decoded) ELSE decoded

\* the last token of toks with the key
LastWithKey(toks, key) ==
  toks[CHOOSE i \in 1..Len(toks) :
         /\ TokKey(toks[i]) = key
         /\ \A j \in (i + 1)..Len(toks) : TokKey(toks[j]) # key]

HasTokenWithKey(toks, key) == \E i \in 1..Len(toks) : TokKey(toks[i]) = key

\* C5: with the wildcard in wantedProps and annotSet 'om' in any case, no
\* well-formed token with a key other than orig, origAnnotID, parentId is
\* stored under its own key: 'attr' is those raw tokens joined by '&' in their
\* order, and the reserved keys hold their decoded, lower-cased values.
C5_WildcardOmAttributeBag ==
  (IsDecode /\ _WILDCARD \in call.props /\ lower(call.set) = _OM_ANNOT_SET) =>
    LET toks == WellFormedTokens(call.other)
        bag == SelectSeq(toks, LAMBDA t : TokKey(t) \notin _OM_NON_ATTRIBUTE_PROPERTIES)
    IN /\ DOMAIN call.result \subseteq _OM_NON_ATTRIBUTE_PROPERTIES \cup {_ATTR}
       /\ _ATTR \in DOMAIN call.result <=> Len(bag) > 0
       /\ Len(bag) > 0 => call.result[_ATTR] = join(bag, "&")
       /\ \A k \in _OM_NON_ATTRIBUTE_PROPERTIES :
            /\ k \in DOMAIN call.result <=> HasTokenWithKey(toks, k)
            /\ k \in DOMAIN call.result =>
                 call.result[k] = StoredValue(LastWithKey(toks, k), call.lcProps,
                                              call.decodeProps)

\* 'OM' with a raw token in the bag and orig decoded and lower-cased
C5_Witness ==
  /\ IsDecode
  /\ call.set = <<"O", "M">>
  /\ _WILDCARD \in call.props
  /\ _ATTR \in DOMAIN call.result
  /\ call.result[_ATTR] = <<"b", "=", "%", "2", "6">>
  /\ _ORIG \in DOMAIN call.result
  /\ call.result[_ORIG] = <<"a", " ", "b">>

\* C7: with 'attr' and no wildcard in wantedProps, for annotSet 'om' the
\* well-formed tokens whose key is neither wanted nor reserved are joined by
\* '&' into 'attr' unless a token set 'attr' itself; for another annotSet they
\* are dropped.
C7_AttrMarkerCollectsUnwanted ==
  (IsDecode /\ _ATTR \in call.props /\ _WILDCARD \notin call.props) =>
    LET toks == WellFormedTokens(call.other)
        bag == SelectSeq(toks, LAMBDA t : /\ TokKey(t) \notin call.props
                                          /\ TokKey(t) \notin _OM_NON_ATTRIBUTE_PROPERTIES)
        attrSet == HasTokenWithKey(toks, _ATTR)
    IN /\ \A k \in DOMAIN call.result : k \in call.props /\ (k # _ATTR => HasTokenWithKey(toks, k))
       /\ attrSet =>
            /\ _ATTR \in DOMAIN call.result
            /\ call.result[_ATTR] = StoredValue(LastWithKey(toks, _ATTR), call.lcProps,
                                                call.decodeProps)
       /\ IF lower(call.set) = _OM_ANNOT_SET
            THEN (Len(bag) > 0 /\ ~attrSet) =>
                   /\ _ATTR \in DOMAIN call.result
                   /\ call.result[_ATTR] = join(bag, "&")
            ELSE _ATTR \in DOMAIN call.result => attrSet
       /\ (Len(bag) = 0 /\ ~attrSet) => _ATTR \notin DOMAIN call.result

\* 'om' with wantedProps ['attr', 'a']: a is stored, the unwanted b is collected
C7_Witness ==
  /\ IsDecode
  /\ lower(call.set) = _OM_ANNOT_SET
  /\ call.props = {_ATTR, KeyA}
  /\ KeyA \in DOMAIN call.result
  /\ _ATTR \in DOMAIN call.result
  /\ call.result[_ATTR] = <<"b", "=", "%", "2", "6">>

IsRoundTrip == call.op = "RoundTrip"

\* the key is among the wanted ones
Selected(key, props) == _WILDCARD \in props \/ key \in props

\* the mapping restricted to the keys props selects
Restricted(items, props) ==
  [key \in {items[i][1] : i \in {j \in 1..Len(items) : Selected(items[j][1], props)}} |->
     (CHOOSE item \in {items[i] : i \in 1..Len(items)} : item[1] = key)[2]]

\* C4: decoding what was encoded with the same props, E = D and nothing
\* lower-cased gives the mapping restricted to the keys props selects.
C4_RoundTrip ==
  IsRoundTrip => call.result = Restricted(call.properties.items, call.props)

\* the round trip's provisos: no selected key holds '&' or '=', no selected
\* value left unencoded holds '&' or '=', and the attribute bag of 'om' under
\* the wildcard takes no key
RoundTripProvisos ==
  LET items == call.properties.items IN
  /\ \A i \in 1..Len(items) :
       Selected(items[i][1], call.props) =>
         /\ ~HasSeparator(items[i][1])
         /\ (_WILDCARD \in call.encodeProps \/ items[i][1] \in call.encodeProps
               \/ ~HasSeparator(items[i][2]))
  /\ ~(/\ _WILDCARD \in call.props
       /\ lower(call.set) = _OM_ANNOT_SET
       /\ \E i \in 1..Len(items) : items[i][1] \notin _OM_NON_ATTRIBUTE_PROPERTIES)

\* C4 as amended: the round trip under its provisos.
C4_RoundTripUnderProvisos ==
  (IsRoundTrip /\ RoundTripProvisos)
    => call.result = Restricted(call.properties.items, call.props)

\* two keys, one of them selected, its value 'a&b' percent-encoded and decoded
C4_Witness ==
  /\ IsRoundTrip
  /\ RoundTripProvisos
  /\ call.props = {KeyA}
  /\ call.encodeProps = {KeyA}
  /\ Len(call.properties.items) = 2
  /\ call.other = <<"a", "=", "a", "%", "2", "6", "b">>
  /\ call.result = [k \in {KeyA} |-> <<"a", "&", "b">>]

====
